---- MODULE Spec2Model ----
(***************************************************************************)
(* Model of the PdM platform core:                                         *)
(*   - the ML service (backend/ml_service/main.py): per-machine history    *)
(*     buffer, auto-training trigger, rule-based and ensemble scoring;     *)
(*   - the edge gateway (edge/aispark_edge_gateway.py): local store and    *)
(*     cloud sync of sensor readings.                                      *)
(*                                                                         *)
(* Units.  Scores are integers in units of 1e-4 (0.7 is 7000), so that     *)
(* round(x, 3) is a real operation; confidences are in units of 1e-3;      *)
(* temperatures are in degrees C, vibration in 1e-2 g, power in W.         *)
(***************************************************************************)
EXTENDS Integers, Sequences, FiniteSets, TLC

\* ------------------------------------------------------------------------
\* Bounds of the model (not program constants)
\* ------------------------------------------------------------------------
\* ingests of one machine in a long stream: HISTORY_SIZE + 3, so eviction happens
MaxIngest == 103
\* length of the free tail of a long stream: a long stream is a run of readings
\* of one kind followed by at most MaxOdd readings of any kind
MaxOdd == 1
\* ingests of one machine when requests of all endpoints are mixed
MaxApiIngest == 3
\* successful explicit trainings per machine
MaxTrain == 2
\* rows of the edge table sensor_readings
MaxRows == 5
\* sync_with_cloud tasks created and not yet run
MaxTasks == 2
\* readings processed by the edge gateway in a long run
MaxAlertRows == 23

\* ------------------------------------------------------------------------
\* Program constants
\* ------------------------------------------------------------------------
HISTORY_SIZE == 100
TRAINING_SIZE == 30
\* 0.7 in units of 1e-4
ANOMALY_THRESHOLD == 7 * 1000

Machines == {"m1", "m2"}
\* data.get("machine_id") of a request that carries none (falsy)
NoMachine == "none"

Min(a, b) == IF a < b THEN a ELSE b
Max(a, b) == IF a > b THEN a ELSE b
AbsInt(a) == IF a < 0 THEN -a ELSE a

\* ------------------------------------------------------------------------
\* Values of a sensor channel as they arrive in a request
\* ------------------------------------------------------------------------
Num(v) == [tag |-> "num", v |-> v]
\* key absent (None)
Missing == [tag |-> "none", v |-> 0]
\* a string float() cannot parse
Str == [tag |-> "str", v |-> 0]
\* float('nan'), float('inf')
NaN == [tag |-> "nan", v |-> 0]
Inf == [tag |-> "inf", v |-> 0]

Channels == <<"temperature_c", "current_a", "power_w", "vibration_x_g">>

\* _safe_float: None and unparsable values become 0.0, floats pass through
SafeFloat(value) ==
    IF value.tag = "none" THEN Num(0)
    ELSE IF value.tag = "str" THEN Num(0)
    ELSE value

\* float comparisons; every comparison with NaN is false
FGt(x, c) == (x.tag = "inf") \/ (x.tag = "num" /\ x.v > c)
FLt(x, c) == x.tag = "num" /\ x.v < c
FAbs(x) == IF x.tag = "num" THEN Num(AbsInt(x.v)) ELSE x

\* round(x, 3) on a value in units of 1e-4: nearest multiple of 10, ties to even
Round3(x) ==
    LET q == x \div 10
        r == x % 10
    IN IF r < 5 THEN q * 10
       ELSE IF r > 5 THEN (q + 1) * 10
       ELSE IF q % 2 = 0 THEN q * 10 ELSE (q + 1) * 10

\* ------------------------------------------------------------------------
\* Readings.  valid = the request's sensor_data is a dict
\* ------------------------------------------------------------------------
Reading(ts, valid, t, c, p, v) ==
    [ts |-> ts, valid |-> valid, temperature_c |-> t, current_a |-> c,
     power_w |-> p, vibration_x_g |-> v]

Kinds == {"nominal", "t50", "warn", "crit", "critvib", "empty", "nantemp", "bad"}

Payload(kind, ts) ==
    CASE kind = "nominal" -> Reading(ts, TRUE, Num(50), Num(5), Num(1000), Num(10))
      [] kind = "t50"     -> Reading(ts, TRUE, Num(50), Missing, Missing, Missing)
      [] kind = "warn"    -> Reading(ts, TRUE, Num(120), Num(5), Num(1000), Num(10))
      [] kind = "crit"    -> Reading(ts, TRUE, Num(180), Num(5), Num(1000), Num(10))
      [] kind = "critvib" -> Reading(ts, TRUE, Num(50), Num(5), Num(1000), Num(-200))
      [] kind = "empty"   -> Reading(ts, TRUE, Missing, Missing, Missing, Missing)
      [] kind = "nantemp" -> Reading(ts, TRUE, NaN, Num(5), Num(1000), Num(10))
      [] kind = "inftemp" -> Reading(ts, TRUE, Inf, Num(5), Num(1000), Num(10))
      [] OTHER            -> Reading(ts, FALSE, Missing, Missing, Missing, Missing)

\* a request list of n readings of one kind
Rep(n, kind) == [i \in 1..n |-> Payload(kind, i)]

\* ------------------------------------------------------------------------
\* SimpleMLEngine.safe_extract_features
\* ------------------------------------------------------------------------
NoFeatures == [ok |-> FALSE, dim |-> 0, nan |-> FALSE]

\* columns that survive df.dropna(axis=1, how='all')
KeptColumns(readings) ==
    {j \in 1..Len(Channels) :
        \E i \in 1..Len(readings) : SafeFloat(readings[i][Channels[j]]).tag # "nan"}

\* variant: two readings are enough for a feature vector
safe_extract_features_two(readings) ==
    IF Len(readings) < 2 THEN NoFeatures
    ELSE IF \E i \in 1..Len(readings) : ~readings[i].valid THEN NoFeatures
    ELSE LET cols == KeptColumns(readings)
         IN IF cols = {} THEN NoFeatures
            ELSE [ok |-> TRUE, dim |-> 4 * Cardinality(cols),
                  nan |-> \E j \in cols : \E i \in 1..Len(readings) :
                              SafeFloat(readings[i][Channels[j]]).tag = "inf"]

\* the feature vector is summarised by its length and by whether it holds a
\* NaN (the std of a column that holds an infinity)
safe_extract_features(readings) ==
    IF Len(readings) < 3 THEN NoFeatures
    ELSE IF \E i \in 1..Len(readings) : ~readings[i].valid THEN NoFeatures
    ELSE LET cols == KeptColumns(readings)
         IN IF cols = {} THEN NoFeatures
            ELSE [ok |-> TRUE, dim |-> 4 * Cardinality(cols),
                  nan |-> \E j \in cols : \E i \in 1..Len(readings) :
                              SafeFloat(readings[i][Channels[j]]).tag = "inf"]

\* ------------------------------------------------------------------------
\* SimpleMLEngine._simple_rule_based_prediction
\* ------------------------------------------------------------------------
\* variant: the critical band starts at 200 instead of 150
TempScoreTypo(temp) == IF FGt(temp, 200) THEN 9000 ELSE IF FGt(temp, 100) THEN 7000 ELSE 0
TempScore(temp) == IF FGt(temp, 150) THEN 9000 ELSE IF FGt(temp, 100) THEN 7000 ELSE 0
TempAlerts(temp) ==
    IF FGt(temp, 150) THEN <<"Critical temperature detected">>
    ELSE IF FGt(temp, 100) THEN <<"High temperature warning">> ELSE <<>>
\* variant: the scores of the two vibration bands are exchanged
VibScoreSwapped(vib) == IF FGt(vib, 100) THEN 6000 ELSE IF FGt(vib, 50) THEN 8000 ELSE 0
VibScore(vib) == IF FGt(vib, 100) THEN 8000 ELSE IF FGt(vib, 50) THEN 6000 ELSE 0
VibAlerts(vib) ==
    IF FGt(vib, 100) THEN <<"Critical vibration detected">>
    ELSE IF FGt(vib, 50) THEN <<"High vibration warning">> ELSE <<>>
PowerHit(power) == FGt(power, 5000) \/ FLt(power, 10)
PowerScore(power) == IF PowerHit(power) THEN 5000 ELSE 0
PowerAlerts(power) == IF PowerHit(power) THEN <<"Power consumption anomaly">> ELSE <<>>

Verdict(detected, score, conf, alerts, method, mlscore) ==
    [anomaly_detected |-> detected, anomaly_score |-> score, confidence |-> conf,
     alerts |-> alerts, method |-> method, ml_score |-> mlscore]

\* prediction = None
NoVerdict == Verdict(FALSE, 0, 0, <<>>, "none", 0)

RuleScoreOf(latest) ==
    Max(Max(TempScore(SafeFloat(latest.temperature_c)),
            VibScore(FAbs(SafeFloat(latest.vibration_x_g)))),
        PowerScore(SafeFloat(latest.power_w)))

simple_rule_based_prediction(recent_readings) ==
    IF Len(recent_readings) = 0
    THEN Verdict(FALSE, 0, 0, <<>>, "rule_based", 0)
    ELSE LET latest == recent_readings[Len(recent_readings)]
         IN IF ~latest.valid
            THEN Verdict(FALSE, 0, 0, <<"Prediction error">>, "error_fallback", 0)
            ELSE LET temp == SafeFloat(latest.temperature_c)
                     vib == FAbs(SafeFloat(latest.vibration_x_g))
                     power == SafeFloat(latest.power_w)
                     score == RuleScoreOf(latest)
                 IN Verdict(score > ANOMALY_THRESHOLD, Round3(score), 800,
                            TempAlerts(temp) \o VibAlerts(vib) \o PowerAlerts(power),
                            "rule_based", 0)

\* ------------------------------------------------------------------------
\* SimpleMLEngine.train_model
\* ------------------------------------------------------------------------
\* a stored model or scaler: the generation that fitted it (0 = none stored)
\* and the number of features it was fitted on
NoModel == [id |-> 0, dim |-> 0]
NoStats == [training_samples |-> 0, temperature |-> <<0, 0>>, power |-> <<0, 0>>,
            vibration |-> <<0, 0>>]

\* training_features: the feature count of every window kept for training,
\* indexed by the window's start
TrainingFeatures(readings) ==
    LET window_size == Min(5, Len(readings) \div 5)
        all == [i \in 0..(Len(readings) - window_size) |->
                   safe_extract_features(SubSeq(readings, i + 1, i + window_size))]
    IN [i \in {j \in DOMAIN all : all[j].ok /\ ~all[j].nan} |-> all[i].dim]

\* variant: the size check is off by one (29 readings are enough)
train_model_off_by_one(ml, readings) ==
    IF ~ml THEN [status |-> "ml_unavailable", dim |-> 0]
    ELSE IF Len(readings) < TRAINING_SIZE - 1
         THEN [status |-> "insufficient_data", dim |-> 0]
    ELSE LET training_features == TrainingFeatures(readings)
             dims == {training_features[i] : i \in DOMAIN training_features}
         IN IF Cardinality(DOMAIN training_features) < 5
            THEN [status |-> "insufficient_features", dim |-> 0]
            ELSE IF Cardinality(dims) > 1 THEN [status |-> "training_error", dim |-> 0]
            ELSE [status |-> "success", dim |-> CHOOSE d \in dims : TRUE]

\* status of train_model and the feature count of the fitted model; windows of
\* different feature counts make np.array / the scaler's fit raise
train_model(ml, readings) ==
    IF ~ml THEN [status |-> "ml_unavailable", dim |-> 0]
    ELSE IF Len(readings) < TRAINING_SIZE THEN [status |-> "insufficient_data", dim |-> 0]
    ELSE LET training_features == TrainingFeatures(readings)
             dims == {training_features[i] : i \in DOMAIN training_features}
         IN IF Cardinality(DOMAIN training_features) < 5
            THEN [status |-> "insufficient_features", dim |-> 0]
            ELSE IF Cardinality(dims) > 1 THEN [status |-> "training_error", dim |-> 0]
            ELSE [status |-> "success", dim |-> CHOOSE d \in dims : TRUE]

\* _calculate_baseline_stats: per channel the sum and count of the values kept
\* (the mean is their quotient)
RECURSIVE ChannelSum(_, _, _)
\* which: 1 temperature (> 0), 2 power (> 0), 3 |vibration| (< 10 g)
ChannelSum(readings, i, which) ==
    IF i = 0 THEN <<0, 0>>
    ELSE LET rest == ChannelSum(readings, i - 1, which)
             temp == SafeFloat(readings[i].temperature_c)
             power == SafeFloat(readings[i].power_w)
             vib == FAbs(SafeFloat(readings[i].vibration_x_g))
             keep == CASE which = 1 -> FGt(temp, 0)
                       [] which = 2 -> FGt(power, 0)
                       [] OTHER -> FLt(vib, 1000)
             val == CASE which = 1 -> temp.v [] which = 2 -> power.v [] OTHER -> vib.v
         IN IF keep THEN <<rest[1] + val, rest[2] + 1>> ELSE rest

calculate_baseline_stats(old, readings) ==
    IF \E i \in 1..Len(readings) : ~readings[i].valid THEN old
    ELSE [training_samples |-> Len(readings),
          temperature |-> ChannelSum(readings, Len(readings), 1),
          power |-> ChannelSum(readings, Len(readings), 2),
          vibration |-> ChannelSum(readings, Len(readings), 3)]

\* ------------------------------------------------------------------------
\* SimpleMLEngine.predict_anomaly
\* ------------------------------------------------------------------------
\* values of model.decision_function, in units of 1e-4
DecisionScores == {-1000, 1498, 1500, 5000}

\* variant: the normalized score is not clamped to [0, 1]
NormalizedScoreUnclamped(anomaly_score) == (5000 - anomaly_score) * 2
\* normalized_score = max(0, min(1, (0.5 - anomaly_score) * 2))
NormalizedScore(anomaly_score) == Max(0, Min(10000, (5000 - anomaly_score) * 2))

\* whether predict_anomaly reaches model.decision_function
ScoresWithModel(ml, model, scaler, recent_readings) ==
    LET features == safe_extract_features(recent_readings)
    IN /\ ml /\ model # NoModel /\ features.ok
       /\ scaler # NoModel /\ features.dim = scaler.dim
       /\ features.dim = model.dim /\ ~features.nan

\* the values decision_function can return in a call (a single placeholder
\* when it is not called)
ScoresOf(ml, model, scaler, recent_readings) ==
    IF ScoresWithModel(ml, model, scaler, recent_readings) THEN DecisionScores ELSE {0}

\* variant: the two scores are averaged
CombineScoresMean(normalized_score, rule_score) == (normalized_score + rule_score) \div 2

\* final_score = max(normalized_score, rule score)
CombineScores(normalized_score, rule_score) == Max(normalized_score, rule_score)

\* variant: without features the rule verdict is returned under the model's
\* method and confidence
predict_anomaly_partial(ml, model, scaler, recent_readings, anomaly_score) ==
    IF ~ml \/ model = NoModel THEN simple_rule_based_prediction(recent_readings)
    ELSE LET features == safe_extract_features(recent_readings)
             rule_based == simple_rule_based_prediction(recent_readings)
         IN IF ~features.ok
            THEN [rule_based EXCEPT !.method = "ml_with_rules",
                                    !.confidence = Min(1000, Len(recent_readings) * 100)]
            ELSE IF scaler = NoModel \/ features.dim # scaler.dim
                    \/ features.dim # model.dim \/ features.nan
                 THEN rule_based
            ELSE LET final_score == CombineScores(NormalizedScore(anomaly_score),
                                                  rule_based.anomaly_score)
                 IN Verdict(final_score > ANOMALY_THRESHOLD, Round3(final_score),
                            Min(1000, Len(recent_readings) * 100), rule_based.alerts,
                            "ml_with_rules", Round3(anomaly_score))

\* variant: the errors of scaler.transform and decision_function are not
\* caught, the call ends without a verdict
predict_anomaly_unguarded(ml, model, scaler, recent_readings, anomaly_score) ==
    IF ~ml \/ model = NoModel THEN simple_rule_based_prediction(recent_readings)
    ELSE LET features == safe_extract_features(recent_readings)
         IN IF ~features.ok THEN simple_rule_based_prediction(recent_readings)
            ELSE IF scaler = NoModel \/ features.dim # scaler.dim
                    \/ features.dim # model.dim \/ features.nan
                 THEN NoVerdict
            ELSE LET rule_based == simple_rule_based_prediction(recent_readings)
                     final_score == CombineScores(NormalizedScore(anomaly_score),
                                                  rule_based.anomaly_score)
                 IN Verdict(final_score > ANOMALY_THRESHOLD, Round3(final_score),
                            Min(1000, Len(recent_readings) * 100), rule_based.alerts,
                            "ml_with_rules", Round3(anomaly_score))

predict_anomaly(ml, model, scaler, recent_readings, anomaly_score) ==
    IF ~ml \/ model = NoModel THEN simple_rule_based_prediction(recent_readings)
    ELSE LET features == safe_extract_features(recent_readings)
         IN IF ~features.ok THEN simple_rule_based_prediction(recent_readings)
            \* scaler.transform and decision_function raise on a feature count
            \* other than the fitted one and on non-finite input
            ELSE IF scaler = NoModel \/ features.dim # scaler.dim
                    \/ features.dim # model.dim \/ features.nan
                 THEN simple_rule_based_prediction(recent_readings)
            ELSE LET rule_based == simple_rule_based_prediction(recent_readings)
                     final_score == CombineScores(NormalizedScore(anomaly_score),
                                                  rule_based.anomaly_score)
                 IN Verdict(final_score > ANOMALY_THRESHOLD, Round3(final_score),
                            Min(1000, Len(recent_readings) * 100), rule_based.alerts,
                            "ml_with_rules", Round3(anomaly_score))

\* ------------------------------------------------------------------------
\* State
\* ------------------------------------------------------------------------
VARIABLES
    \* ML service (module globals and the ml_engine object)
    ML_AVAILABLE,      \* whether the sklearn import succeeded
    sensor_history,    \* machine -> deque(maxlen=HISTORY_SIZE); <<>> = key absent
    models,            \* ml_engine.models, NoModel = key absent
    scalers,           \* ml_engine.scalers
    baseline_stats,    \* machine -> stats, NoStats = key absent
    stream,            \* history variable: the readings ingested so far, per machine
    last,              \* the last request and its response
    \* edge gateway
    sensor_readings,   \* table sensor_readings, in id order
    local_alerts,      \* table local_alerts, in id order
    cloud_connection,  \* self.cloud_connection
    cloudUp,           \* environment: the cloud endpoint is reachable
    procPc,            \* position of process_sensor_data_locally ("idle" or "stored")
    syncTasks,         \* sync_with_cloud tasks created and not yet started
    syncPc,            \* position of the running sync_with_cloud task
    batch,             \* ids of unsynced_readings of the running task
    acked,             \* history variable: ids of rows in a batch the cloud answered 2xx
    edgeLast           \* the last edge step and its outcome

mlVars == <<ML_AVAILABLE, sensor_history, models, scalers, baseline_stats, stream, last>>
edgeVars == <<sensor_readings, local_alerts, cloud_connection, cloudUp, procPc,
              syncTasks, syncPc, batch, acked, edgeLast>>
vars == <<mlVars, edgeVars>>

\* ------------------------------------------------------------------------
\* ML service: requests
\* ------------------------------------------------------------------------
Response(op, machine, status, total, trained, prediction, readings, train_status) ==
    [op |-> op, machine |-> machine, status |-> status, total_readings |-> total,
     model_trained |-> trained, prediction |-> prediction, readings |-> readings,
     train_status |-> train_status]

\* variant: a full buffer drops its newest entry instead of its oldest
DequeAppendDropNewest(buffer, item) ==
    IF Len(buffer) >= HISTORY_SIZE
    THEN Append(SubSeq(buffer, 1, Len(buffer) - 1), item)
    ELSE Append(buffer, item)

\* deque(maxlen=HISTORY_SIZE).append
DequeAppend(buffer, item) ==
    IF Len(buffer) >= HISTORY_SIZE THEN Append(Tail(buffer), item)
    ELSE Append(buffer, item)

\* variants: the trigger compares with the scoring minimum; the trigger is
\* strict
AutoTrainDueEarly(model, history) == model = NoModel /\ Len(history) >= 3
AutoTrainDueLate(model, history) == model = NoModel /\ Len(history) > TRAINING_SIZE

\* variant: the test for an existing model is missing
AutoTrainDueAlways(model, history) == Len(history) >= TRAINING_SIZE

\* the auto-train condition of ingest_sensor_data
AutoTrainDue(model, history) == model = NoModel /\ Len(history) >= TRAINING_SIZE

LastN(seq, n) == SubSeq(seq, Max(1, Len(seq) - n + 1), Len(seq))

\* the readings ingest_sensor_data scores, given the model after auto-training
RecentReadings(model, history) ==
    IF model # NoModel /\ Len(history) >= 3 THEN LastN(history, 5) ELSE LastN(history, 1)

\* the model and scaler train_model stores on success
Fitted(model, result) == [id |-> model.id + 1, dim |-> result.dim]

\* variant: a failed auto-training ends the request with an error and no
\* verdict
IngestHandlerAbort(m, data) ==
    LET history == DequeAppend(sensor_history[m], data)
        due == AutoTrainDue(models[m], history)
        result == train_model(ML_AVAILABLE, history)
        fitted == due /\ result.status = "success"
        model == IF fitted THEN Fitted(models[m], result) ELSE models[m]
        scaler == IF fitted THEN Fitted(models[m], result) ELSE scalers[m]
        recent == RecentReadings(model, history)
    IN /\ sensor_history' = [sensor_history EXCEPT ![m] = history]
       /\ models' = [models EXCEPT ![m] = model]
       /\ scalers' = [scalers EXCEPT ![m] = scaler]
       /\ baseline_stats' = [baseline_stats EXCEPT ![m] =
              IF fitted THEN calculate_baseline_stats(@, history) ELSE @]
       /\ \E anomaly_score \in ScoresOf(ML_AVAILABLE, model, scaler, recent) :
             last' = IF due /\ ~fitted
                     THEN Response("ingest", m, "error", Len(history), FALSE, NoVerdict,
                                   recent, result.status)
                     ELSE Response("ingest", m, "success", Len(history), model # NoModel,
                              IF model # NoModel /\ Len(history) >= 3
                              THEN predict_anomaly(ML_AVAILABLE, model, scaler, recent,
                                                   anomaly_score)
                              ELSE simple_rule_based_prediction(recent),
                              recent, IF due THEN result.status ELSE "not_attempted")

\* variant: the training set is the buffer as it was before the request's
\* append
IngestHandlerStaleSnapshot(m, data) ==
    LET history == DequeAppend(sensor_history[m], data)
        due == AutoTrainDue(models[m], history)
        result == train_model(ML_AVAILABLE, sensor_history[m])
        fitted == due /\ result.status = "success"
        model == IF fitted THEN Fitted(models[m], result) ELSE models[m]
        scaler == IF fitted THEN Fitted(models[m], result) ELSE scalers[m]
        recent == RecentReadings(model, history)
    IN /\ sensor_history' = [sensor_history EXCEPT ![m] = history]
       /\ models' = [models EXCEPT ![m] = model]
       /\ scalers' = [scalers EXCEPT ![m] = scaler]
       /\ baseline_stats' = [baseline_stats EXCEPT ![m] =
              IF fitted THEN calculate_baseline_stats(@, sensor_history[m]) ELSE @]
       /\ \E anomaly_score \in ScoresOf(ML_AVAILABLE, model, scaler, recent) :
             last' = Response("ingest", m, "success", Len(history), model # NoModel,
                              IF model # NoModel /\ Len(history) >= 3
                              THEN predict_anomaly(ML_AVAILABLE, model, scaler, recent,
                                                   anomaly_score)
                              ELSE simple_rule_based_prediction(recent),
                              recent, IF due THEN result.status ELSE "not_attempted")

\* ingest_sensor_data for a request that carries a machine_id
IngestHandler(m, data) ==
    LET history == DequeAppend(sensor_history[m], data)
        due == AutoTrainDue(models[m], history)
        result == train_model(ML_AVAILABLE, history)
        fitted == due /\ result.status = "success"
        model == IF fitted THEN Fitted(models[m], result) ELSE models[m]
        scaler == IF fitted THEN Fitted(models[m], result) ELSE scalers[m]
        recent == RecentReadings(model, history)
    IN /\ sensor_history' = [sensor_history EXCEPT ![m] = history]
       /\ models' = [models EXCEPT ![m] = model]
       /\ scalers' = [scalers EXCEPT ![m] = scaler]
       /\ baseline_stats' = [baseline_stats EXCEPT ![m] =
              IF fitted THEN calculate_baseline_stats(@, history) ELSE @]
       /\ \E anomaly_score \in ScoresOf(ML_AVAILABLE, model, scaler, recent) :
             last' = Response("ingest", m, "success", Len(history), model # NoModel,
                              IF model # NoModel /\ Len(history) >= 3
                              THEN predict_anomaly(ML_AVAILABLE, model, scaler, recent,
                                                   anomaly_score)
                              ELSE simple_rule_based_prediction(recent),
                              recent, IF due THEN result.status ELSE "not_attempted")

\* The readings ingested for a machine, in order: n readings, the first
\* n - Len(tail) of kind base, then one of each kind of tail
NoStream == [n |-> 0, base |-> "none", tail |-> <<>>]
BaseKinds == {"nominal", "nantemp", "bad"}
StreamMachines == {"m1"}

\* the i-th reading ingested for machine m
Ingested(m, i) ==
    LET run == stream[m].n - Len(stream[m].tail)
    IN IF i <= run THEN Payload(stream[m].base, i) ELSE Payload(stream[m].tail[i - run], i)

Extend(st, kind) ==
    IF st.tail = <<>> /\ kind \in BaseKinds /\ (st.n = 0 \/ kind = st.base)
    THEN [n |-> st.n + 1, base |-> kind, tail |-> <<>>]
    ELSE [n |-> st.n + 1, base |-> st.base, tail |-> Append(st.tail, kind)]

\* POST /ingest with a machine_id, in a long stream
Ingest(m, kind) ==
    /\ stream[m].n < MaxIngest
    /\ Len(Extend(stream[m], kind).tail) <= MaxOdd
    /\ stream' = [stream EXCEPT ![m] = Extend(@, kind)]
    /\ IngestHandler(m, Payload(kind, stream[m].n + 1))
    /\ UNCHANGED <<ML_AVAILABLE, edgeVars>>

\* POST /ingest with a machine_id, among requests of the other endpoints
ApiKinds == {"nominal", "crit"}
IngestApi(m, kind) ==
    /\ stream[m].n < MaxApiIngest
    /\ stream' = [stream EXCEPT ![m] = Extend(@, kind)]
    /\ IngestHandler(m, Payload(kind, stream[m].n + 1))
    /\ UNCHANGED <<ML_AVAILABLE, edgeVars>>

\* ingest_sensor_data for a request without machine_id: an error, no state change
IngestNoMachine(kind) ==
    /\ last' = Response("ingest", NoMachine, "error", 0, FALSE, NoVerdict,
                        <<Payload(kind, 0)>>, "not_attempted")
    /\ UNCHANGED <<ML_AVAILABLE, sensor_history, models, scalers, baseline_stats,
                   stream, edgeVars>>

\* request bodies of /train
TrainLists ==
    {Rep(0, "nominal"), Rep(29, "nominal"), Rep(30, "nominal"), Rep(30, "nantemp"),
     Rep(30, "bad"), Rep(30, "inftemp"), Rep(15, "nantemp") \o Rep(15, "nominal")}

\* train_model tabulated over the request bodies of /train
TrainTable == [ml \in BOOLEAN |-> [readings \in TrainLists |-> train_model(ml, readings)]]

\* _calculate_baseline_stats tabulated over the request bodies of /train; NoStats
\* stands for a calculation that raised and left the statistics as they were
BaselineTable == [readings \in TrainLists |-> calculate_baseline_stats(NoStats, readings)]

\* variant: the request is cut between the store of the model and the store of
\* the scaler
TrainModelOnly(m, readings) ==
    /\ \E result \in {TrainTable[ML_AVAILABLE][readings]} :
          LET fitted == result.status = "success"
          IN /\ fitted => models[m].id < MaxTrain
             /\ models' = [models EXCEPT ![m] = IF fitted THEN Fitted(@, result) ELSE @]
             /\ last' = Response("train", m, result.status, Len(readings),
                                 models'[m] # NoModel, NoVerdict, <<>>, result.status)
    /\ UNCHANGED <<ML_AVAILABLE, sensor_history, scalers, baseline_stats, stream, edgeVars>>

\* variant: the model and the scaler are stored in a finally clause, also
\* when the fit raised
TrainStoresAfterError(m, readings) ==
    /\ \E result \in {TrainTable[ML_AVAILABLE][readings]} :
          LET fitted == result.status \in {"success", "training_error"}
              stored == [result EXCEPT !.dim = IF result.status = "success" THEN @
                                                ELSE 4 * Len(Channels)]
          IN /\ fitted => models[m].id < MaxTrain
             /\ models' = [models EXCEPT ![m] = IF fitted THEN Fitted(@, stored) ELSE @]
             /\ scalers' = [scalers EXCEPT ![m] =
                    IF fitted THEN Fitted(models[m], stored) ELSE @]
             /\ baseline_stats' = [baseline_stats EXCEPT ![m] =
                    IF result.status = "success" /\ BaselineTable[readings] # NoStats
                    THEN BaselineTable[readings] ELSE @]
             /\ last' = Response("train", m, result.status, Len(readings),
                                 models'[m] # NoModel, NoVerdict, <<>>, result.status)
    /\ UNCHANGED <<ML_AVAILABLE, sensor_history, stream, edgeVars>>

\* variant: a failed training discards the model, the scaler and the
\* statistics the machine had
TrainDropsOnFailure(m, readings) ==
    /\ \E result \in {TrainTable[ML_AVAILABLE][readings]} :
          LET fitted == result.status = "success"
          IN /\ fitted => models[m].id < MaxTrain
             /\ models' = [models EXCEPT ![m] = IF fitted THEN Fitted(@, result) ELSE NoModel]
             /\ scalers' = [scalers EXCEPT ![m] =
                    IF fitted THEN Fitted(models[m], result) ELSE NoModel]
             /\ baseline_stats' = [baseline_stats EXCEPT ![m] =
                    IF fitted /\ BaselineTable[readings] # NoStats
                    THEN BaselineTable[readings] ELSE @]
             /\ last' = Response("train", m, result.status, Len(readings),
                                 models'[m] # NoModel, NoVerdict, <<>>, result.status)
    /\ UNCHANGED <<ML_AVAILABLE, sensor_history, stream, edgeVars>>

\* variant: baseline_stats is replaced by a dict that holds the trained
\* machine only
TrainReplacesStats(m, readings) ==
    /\ \E result \in {TrainTable[ML_AVAILABLE][readings]} :
          LET fitted == result.status = "success"
          IN /\ fitted => models[m].id < MaxTrain
             /\ models' = [models EXCEPT ![m] = IF fitted THEN Fitted(@, result) ELSE @]
             /\ scalers' = [scalers EXCEPT ![m] =
                    IF fitted THEN Fitted(models[m], result) ELSE @]
             /\ baseline_stats' =
                    IF fitted /\ BaselineTable[readings] # NoStats
                    THEN [x \in Machines |->
                             IF x = m THEN BaselineTable[readings] ELSE NoStats]
                    ELSE baseline_stats
             /\ last' = Response("train", m, result.status, Len(readings),
                                 models'[m] # NoModel, NoVerdict, <<>>, result.status)
    /\ UNCHANGED <<ML_AVAILABLE, sensor_history, stream, edgeVars>>

\* POST /train with a machine_id: ml_engine.train_model
Train(m, readings) ==
    /\ \E result \in {TrainTable[ML_AVAILABLE][readings]} :
          LET fitted == result.status = "success"
          IN /\ fitted => models[m].id < MaxTrain
             /\ models' = [models EXCEPT ![m] = IF fitted THEN Fitted(@, result) ELSE @]
             /\ scalers' = [scalers EXCEPT ![m] =
                    IF fitted THEN Fitted(models[m], result) ELSE @]
             /\ baseline_stats' = [baseline_stats EXCEPT ![m] =
                    IF fitted /\ BaselineTable[readings] # NoStats
                    THEN BaselineTable[readings] ELSE @]
             /\ last' = Response("train", m, result.status, Len(readings),
                                 models'[m] # NoModel, NoVerdict, <<>>, result.status)
    /\ UNCHANGED <<ML_AVAILABLE, sensor_history, stream, edgeVars>>

\* request bodies of /predict
PredictLists ==
    {Rep(0, "nominal"), Rep(1, "crit"), Rep(2, "warn"), Rep(3, "nominal"),
     Rep(5, "crit"), Rep(5, "warn"), Rep(5, "critvib"), Rep(5, "nantemp"),
     Rep(5, "inftemp"), Rep(12, "t50"), Rep(4, "nominal") \o Rep(1, "bad"),
     Rep(2, "bad") \o Rep(2, "crit")}

\* the models and scalers /train can have stored
FittedModels ==
    {NoModel} \cup {[id |-> i, dim |-> TrainTable[TRUE][readings].dim] :
                       i \in 1..MaxTrain,
                       readings \in {r \in TrainLists : TrainTable[TRUE][r].status = "success"}}

\* predict_anomaly tabulated over the request bodies of /predict: for each value
\* decision_function can return, the prediction
PredictTable ==
    [ml \in BOOLEAN |-> [model \in FittedModels |-> [scaler \in FittedModels |->
        [readings \in PredictLists |->
            [anomaly_score \in ScoresOf(ml, model, scaler, readings) |->
                predict_anomaly(ml, model, scaler, readings, anomaly_score)]]]]]

\* POST /predict with a machine_id: ml_engine.predict_anomaly
Predict(m, readings) ==
    /\ \E predictions \in {PredictTable[ML_AVAILABLE][models[m]][scalers[m]][readings]} :
          \E anomaly_score \in DOMAIN predictions :
             last' = Response("predict", m, "success", Len(readings), models[m] # NoModel,
                              predictions[anomaly_score], readings, "not_attempted")
    /\ UNCHANGED <<ML_AVAILABLE, sensor_history, models, scalers, baseline_stats,
                   stream, edgeVars>>

\* predict_anomaly (endpoint) for a request without machine_id: an error, the
\* engine is not called
PredictNoMachine(readings) ==
    /\ last' = Response("predict", NoMachine, "error", Len(readings), FALSE, NoVerdict,
                        readings, "not_attempted")
    /\ UNCHANGED <<ML_AVAILABLE, sensor_history, models, scalers, baseline_stats,
                   stream, edgeVars>>

\* the response of get_machine_status: the fields of Response and baseline_stats
\* (NoStats = None), ml_available
StatusResponse(m, total, trained, stats, ml) ==
    [op |-> "status", machine |-> m, status |-> "success", total_readings |-> total,
     model_trained |-> trained, prediction |-> NoVerdict, readings |-> <<>>,
     train_status |-> "not_attempted", baseline_stats |-> stats, ml_available |-> ml]

\* variant: baseline_stats.pop(machine_id, None) instead of .get(machine_id)
StatusPop(m) ==
    /\ last' = StatusResponse(m, Len(sensor_history[m]), models[m] # NoModel,
                              baseline_stats[m], ML_AVAILABLE)
    /\ baseline_stats' = [baseline_stats EXCEPT ![m] = NoStats]
    /\ UNCHANGED <<ML_AVAILABLE, sensor_history, models, scalers, stream, edgeVars>>

\* GET /status/{machine_id}: get_machine_status
Status(m) ==
    /\ last' = StatusResponse(m, Len(sensor_history[m]), models[m] # NoModel,
                              baseline_stats[m], ML_AVAILABLE)
    /\ UNCHANGED <<ML_AVAILABLE, sensor_history, models, scalers, baseline_stats,
                   stream, edgeVars>>

\* channel values around the bands of the rule-based scorer
TempGrid == {Missing, NaN, Num(-20), Num(50), Num(100), Num(101), Num(150), Num(151),
             Num(180), Inf}
VibGrid == {Missing, Num(-200), Num(-101), Num(-100), Num(-51), Num(-50), Num(10),
            Num(50), Num(51), Num(100), Num(101)}
PowerGrid == {Missing, Num(5), Num(10), Num(1000), Num(5000), Num(5001)}

\* POST /predict with a machine_id and a list of one reading
PredictReading(m, reading) ==
    /\ last' = Response("predict", m, "success", 1, models[m] # NoModel,
                        predict_anomaly(ML_AVAILABLE, models[m], scalers[m], <<reading>>, 0),
                        <<reading>>, "not_attempted")
    /\ UNCHANGED <<ML_AVAILABLE, sensor_history, models, scalers, baseline_stats,
                   stream, edgeVars>>

InitML ==
    /\ ML_AVAILABLE \in BOOLEAN
    /\ sensor_history = [m \in Machines |-> <<>>]
    /\ models = [m \in Machines |-> NoModel]
    /\ scalers = [m \in Machines |-> NoModel]
    /\ baseline_stats = [m \in Machines |-> NoStats]
    /\ stream = [m \in Machines |-> NoStream]
    /\ last = Response("none", NoMachine, "none", 0, FALSE, NoVerdict, <<>>, "not_attempted")

InitEdge ==
    /\ sensor_readings = <<>>
    /\ local_alerts = <<>>
    /\ cloud_connection = TRUE
    /\ cloudUp = TRUE
    /\ procPc = "idle"
    /\ syncTasks = 0
    /\ syncPc = "idle"
    /\ batch = {}
    /\ acked = {}
    /\ edgeLast = "none"

\* ------------------------------------------------------------------------
\* Edge gateway.  The gateway runs on one asyncio loop: its requests calls
\* block the loop, so no reading is processed while a sync_with_cloud task is
\* between its probe and its end; a pending task can run while
\* process_sensor_data_locally is suspended at an await.
\* ------------------------------------------------------------------------
EdgeMachines == {"m1"}
\* LIMIT of the SELECT in sync_sensor_readings
BATCH_LIMIT == 1000
\* status codes of GET /health and of the batch POST
HealthStatuses == {200, 503}
PostStatuses == {200, 201, 500}

\* a row of sensor_readings; offline is a history field: the cloud endpoint
\* was unreachable when the row was stored
Row(id, machine_id, synced, offline) ==
    [id |-> id, machine_id |-> machine_id, synced |-> synced, offline |-> offline]

\* store_locally: INSERT INTO sensor_readings (synced DEFAULT 0), commit
store_locally(rows, machine_id, offline) ==
    Append(rows, Row(Len(rows) + 1, machine_id, FALSE, offline))

\* get_recent_readings: the machine's rows of the last 24 hours; older is how
\* many of the machine's rows are older than that
get_recent_readings(rows, machine_id, older) ==
    LET mine == SelectSeq(rows, LAMBDA r : r.machine_id = machine_id)
    IN SubSeq(mine, Min(older, Len(mine)) + 1, Len(mine))

\* detect_anomaly_locally: historical_values has a single row, so its std
\* along axis 0 is 0 for every column: no z-score is computed
detect_anomaly_locally(recent_readings) ==
    IF Len(recent_readings) < 10
    THEN [is_anomaly |-> FALSE, confidence |-> 0, reason |-> "insufficient_data"]
    ELSE LET z_scores == {}
             max_z_score == 0
         IN [is_anomaly |-> max_z_score > 3000,
             confidence |-> Min(max_z_score \div 5, 1000), reason |-> "z_score"]

\* generate_local_alert: INSERT INTO local_alerts (synced DEFAULT 0), commit
generate_local_alert(alerts, machine_id, anomaly_result) ==
    Append(alerts, [id |-> Len(alerts) + 1, machine_id |-> machine_id,
                    severity |-> IF anomaly_result.confidence > 900
                                 THEN "critical" ELSE "warning",
                    synced |-> FALSE])

\* variant: the reading is not stored before the scoring starts
ProcessStoreDeferred(m) ==
    /\ procPc = "idle" /\ syncPc = "idle"
    /\ Len(sensor_readings) < MaxRows
    /\ sensor_readings' = sensor_readings
    /\ procPc' = "stored"
    /\ edgeLast' = "stored"
    /\ UNCHANGED <<local_alerts, cloud_connection, cloudUp, syncTasks, syncPc, batch,
                   acked, mlVars>>

\* process_sensor_data_locally up to the end of store_locally
ProcessStore(m) ==
    /\ procPc = "idle" /\ syncPc = "idle"
    /\ Len(sensor_readings) < MaxRows
    /\ sensor_readings' = store_locally(sensor_readings, m, ~cloudUp)
    /\ procPc' = "stored"
    /\ edgeLast' = "stored"
    /\ UNCHANGED <<local_alerts, cloud_connection, cloudUp, syncTasks, syncPc, batch,
                   acked, mlVars>>

\* variant: sync_with_cloud is awaited in place and its probe error is not
\* caught, so it ends the processing of the reading
ProcessFinishAwaitsSync(m) ==
    /\ procPc = "stored" /\ syncPc = "idle"
    /\ syncTasks < MaxTasks
    /\ \E older \in {0, MaxRows} :
          LET anomaly_result ==
                  detect_anomaly_locally(get_recent_readings(sensor_readings, m, older))
          IN local_alerts' =
                 IF anomaly_result.is_anomaly /\ anomaly_result.confidence > 800
                 THEN generate_local_alert(local_alerts, m, anomaly_result)
                 ELSE local_alerts
    /\ IF cloudUp
       THEN syncTasks' = syncTasks + 1 /\ edgeLast' = "processed"
            /\ cloud_connection' = cloud_connection
       ELSE syncTasks' = syncTasks /\ edgeLast' = "process_error"
            /\ cloud_connection' = FALSE
    /\ procPc' = "idle"
    /\ UNCHANGED <<sensor_readings, cloudUp, syncPc, batch, acked, mlVars>>

\* process_sensor_data_locally from load_local_model to its return: local
\* scoring, the alert, and the creation of the sync task
ProcessFinish(m) ==
    /\ procPc = "stored" /\ syncPc = "idle"
    /\ syncTasks < MaxTasks
    /\ \E older \in {0, MaxRows} :
          LET anomaly_result ==
                  detect_anomaly_locally(get_recent_readings(sensor_readings, m, older))
          IN local_alerts' =
                 IF anomaly_result.is_anomaly /\ anomaly_result.confidence > 800
                 THEN generate_local_alert(local_alerts, m, anomaly_result)
                 ELSE local_alerts
    /\ syncTasks' = syncTasks + 1
    /\ procPc' = "idle"
    /\ edgeLast' = "processed"
    /\ UNCHANGED <<sensor_readings, cloud_connection, cloudUp, syncPc, batch, acked, mlVars>>

\* how far the reading's values lie from the mean of the trailing window, in
\* standard deviations of that window: at most 4, above 4, above 4.5
Deviations == {"usual", "outlier", "extreme"}

\* process_sensor_data_locally up to the end of store_locally, in a long run
\* of readings; the event records the deviation of the reading.  A value can
\* lie more than 4 standard deviations from the mean only among 18 values or
\* more, so a deviating reading is drawn only where the window is that long.
ProcessStoreLong(m, deviation) ==
    /\ procPc = "idle" /\ syncPc = "idle"
    /\ Len(sensor_readings) < MaxAlertRows
    /\ deviation # "usual" => Len(sensor_readings) + 1 >= MaxAlertRows
    /\ sensor_readings' = store_locally(sensor_readings, m, ~cloudUp)
    /\ procPc' = "stored"
    /\ edgeLast' = CASE deviation = "outlier" -> "stored_outlier"
                     [] deviation = "extreme" -> "stored_extreme"
                     [] OTHER -> "stored"
    /\ UNCHANGED <<local_alerts, cloud_connection, cloudUp, syncTasks, syncPc, batch,
                   acked, mlVars>>

\* variant: the return after a health status other than 200 is missing
SyncProbeUngated ==
    /\ syncPc = "idle" /\ syncTasks > 0
    /\ syncTasks' = syncTasks - 1
    /\ \/ /\ ~cloudUp
          /\ cloud_connection' = FALSE /\ syncPc' = "idle" /\ edgeLast' = "probe_error"
       \/ /\ cloudUp
          /\ \E status \in HealthStatuses :
                IF status # 200
                THEN cloud_connection' = FALSE /\ syncPc' = "select"
                     /\ edgeLast' = "probe_rejected"
                ELSE cloud_connection' = TRUE /\ syncPc' = "select"
                     /\ edgeLast' = "probe_ok"
    /\ UNCHANGED <<sensor_readings, local_alerts, cloudUp, procPc, batch, acked, mlVars>>

\* variant: the calls of requests do not hold the loop, so a created task
\* starts while another one is in its cycle
SyncProbeOverlapping ==
    /\ syncTasks > 0
    /\ syncTasks' = syncTasks - 1
    /\ \/ /\ ~cloudUp
          /\ cloud_connection' = FALSE /\ syncPc' = "idle" /\ edgeLast' = "probe_error"
       \/ /\ cloudUp
          /\ \E status \in HealthStatuses :
                IF status # 200
                THEN cloud_connection' = FALSE /\ syncPc' = "idle"
                     /\ edgeLast' = "probe_rejected"
                ELSE cloud_connection' = TRUE /\ syncPc' = "select"
                     /\ edgeLast' = "probe_ok"
    /\ UNCHANGED <<sensor_readings, local_alerts, cloudUp, procPc, batch, acked, mlVars>>

\* sync_with_cloud: a created task starts and probes GET /health
SyncProbe ==
    /\ syncPc = "idle" /\ syncTasks > 0
    /\ syncTasks' = syncTasks - 1
    /\ \/ /\ ~cloudUp                      \* requests raises: except branch
          /\ cloud_connection' = FALSE /\ syncPc' = "idle" /\ edgeLast' = "probe_error"
       \/ /\ cloudUp
          /\ \E status \in HealthStatuses :
                IF status # 200
                THEN cloud_connection' = FALSE /\ syncPc' = "idle"
                     /\ edgeLast' = "probe_rejected"
                ELSE cloud_connection' = TRUE /\ syncPc' = "select"
                     /\ edgeLast' = "probe_ok"
    /\ UNCHANGED <<sensor_readings, local_alerts, cloudUp, procPc, batch, acked, mlVars>>

\* variant: LIMIT 1
SelectUnsyncedOne(rows) ==
    LET unsynced == SelectSeq(rows, LAMBDA r : ~r.synced)
    IN SubSeq(unsynced, 1, Min(Len(unsynced), 1))

\* SELECT * FROM sensor_readings WHERE synced = 0 LIMIT 1000
SelectUnsynced(rows) ==
    LET unsynced == SelectSeq(rows, LAMBDA r : ~r.synced)
    IN SubSeq(unsynced, 1, Min(Len(unsynced), BATCH_LIMIT))

\* sync_sensor_readings: the SELECT and the building of the batch
SyncSelect ==
    /\ syncPc = "select"
    /\ LET unsynced_readings == SelectUnsynced(sensor_readings)
       IN IF Len(unsynced_readings) = 0
          THEN batch' = {} /\ syncPc' = "rest" /\ edgeLast' = "nothing_to_sync"
          ELSE /\ batch' = {unsynced_readings[i].id : i \in 1..Len(unsynced_readings)}
               /\ syncPc' = "post" /\ edgeLast' = "selected"
    /\ UNCHANGED <<sensor_readings, local_alerts, cloud_connection, cloudUp, procPc,
                   syncTasks, acked, mlVars>>

\* the cloud acknowledged the upload: a 2xx response
Acknowledged(status) == status >= 200 /\ status < 300

\* variant: every response counts as success
MarkAfterAny(status) == TRUE

\* whether sync_sensor_readings marks the batch after a response
MarkAfter(status) == status = 200

\* sync_sensor_readings: the batch POST and its response
SyncPost ==
    /\ syncPc = "post"
    /\ \/ /\ ~cloudUp                      \* timeout or network error: except branch
          /\ syncPc' = "rest" /\ batch' = {} /\ acked' = acked
          /\ edgeLast' = "post_error"
       \/ /\ cloudUp
          /\ \E status \in PostStatuses :
                /\ acked' = IF Acknowledged(status) THEN acked \cup batch ELSE acked
                /\ edgeLast' = IF Acknowledged(status) THEN "post_ok" ELSE "post_rejected"
                /\ IF MarkAfter(status)
                   THEN syncPc' = "mark" /\ batch' = batch
                   ELSE syncPc' = "rest" /\ batch' = {}
    /\ UNCHANGED <<sensor_readings, local_alerts, cloud_connection, cloudUp, procPc,
                   syncTasks, mlVars>>

\* variants: only the first row of the batch is updated; synced rows are
\* deleted instead of flagged
MarkSyncedFirstOnly(rows, reading_ids) ==
    [i \in 1..Len(rows) |->
        IF rows[i].id \in reading_ids /\ \A id \in reading_ids : rows[i].id <= id
        THEN [rows[i] EXCEPT !.synced = TRUE] ELSE rows[i]]
MarkSyncedPurge(rows, reading_ids) == SelectSeq(rows, LAMBDA r : r.id \notin reading_ids)

\* UPDATE sensor_readings SET synced = 1 WHERE id IN (reading_ids)
MarkSynced(rows, reading_ids) ==
    [i \in 1..Len(rows) |->
        IF rows[i].id \in reading_ids THEN [rows[i] EXCEPT !.synced = TRUE] ELSE rows[i]]

\* sync_sensor_readings: the UPDATE and its commit
SyncMark ==
    /\ syncPc = "mark"
    /\ sensor_readings' = MarkSynced(sensor_readings, batch)
    /\ batch' = {}
    /\ syncPc' = "rest"
    /\ edgeLast' = "marked"
    /\ UNCHANGED <<local_alerts, cloud_connection, cloudUp, procPc, syncTasks, acked, mlVars>>

\* sync_alerts and sync_models, to the end of the task
SyncRest ==
    /\ syncPc = "rest"
    /\ syncPc' = "idle"
    /\ local_alerts' =
          IF cloudUp THEN [i \in 1..Len(local_alerts) |->
                              [local_alerts[i] EXCEPT !.synced = TRUE]]
          ELSE local_alerts
    /\ cloud_connection' = (cloud_connection /\ cloudUp)
    /\ edgeLast' = "cycle_done"
    /\ UNCHANGED <<sensor_readings, cloudUp, procPc, syncTasks, batch, acked, mlVars>>

\* environment: the cloud endpoint becomes unreachable or reachable
CloudToggle ==
    /\ cloudUp' = ~cloudUp
    /\ UNCHANGED <<sensor_readings, local_alerts, cloud_connection, procPc, syncTasks,
                   syncPc, batch, acked, edgeLast, mlVars>>

\* the process stops (crash or shutdown) and is started again: the tables in
\* edge_cache.db stay, everything in memory is gone, __init__ runs
Crash ==
    /\ procPc' = "idle" /\ syncTasks' = 0 /\ syncPc' = "idle" /\ batch' = {}
    /\ cloud_connection' = TRUE
    /\ edgeLast' = IF batch # {} THEN "crash_in_flight" ELSE "crash"
    /\ UNCHANGED <<sensor_readings, local_alerts, cloudUp, acked, mlVars>>

Init == InitML /\ InitEdge

NextStream ==
    \E m \in StreamMachines : \E kind \in Kinds : Ingest(m, kind)

SpecStream == Init /\ [][NextStream]_vars

NextApi ==
    \/ \E kind \in ApiKinds : IngestNoMachine(kind)
    \/ \E kind \in ApiKinds : IngestApi("m1", kind)
    \/ \E m \in Machines : \E readings \in TrainLists : Train(m, readings)
    \/ \E m \in Machines : \E readings \in PredictLists : Predict(m, readings)
    \/ \E readings \in {Rep(0, "nominal"), Rep(5, "crit")} : PredictNoMachine(readings)
    \/ \E m \in Machines : Status(m)

SpecApi == Init /\ [][NextApi]_vars

NextRule ==
    \E temp \in TempGrid : \E vib \in VibGrid : \E power \in PowerGrid :
        PredictReading("m1", Reading(1, TRUE, temp, Num(5), power, vib))

SpecRule == Init /\ [][NextRule]_vars

\* ingest and train requests for two machines
IsoTrainLists == {Rep(29, "nominal"), Rep(30, "nominal"), Rep(30, "nantemp")}
NextIso ==
    \/ \E kind \in ApiKinds : IngestNoMachine(kind)
    \/ \E m \in Machines : \E kind \in ApiKinds : IngestApi(m, kind)
    \/ \E m \in Machines : \E readings \in IsoTrainLists : Train(m, readings)

SpecIso == Init /\ [][NextIso]_vars

NextEdge ==
    \/ \E m \in EdgeMachines : ProcessStore(m)
    \/ \E m \in EdgeMachines : ProcessFinish(m)
    \/ SyncProbe
    \/ SyncSelect
    \/ SyncPost
    \/ SyncMark
    \/ SyncRest
    \/ CloudToggle
    \/ Crash

SpecEdge == Init /\ [][NextEdge]_vars

\* the edge gateway over a long run of readings with the cloud reachable
NextAlert ==
    \/ \E m \in EdgeMachines : \E deviation \in Deviations : ProcessStoreLong(m, deviation)
    \/ \E m \in EdgeMachines : ProcessFinish(m)
    \/ SyncProbe
    \/ SyncSelect
    \/ SyncPost
    \/ SyncMark
    \/ SyncRest

SpecAlert == Init /\ [][NextAlert]_vars

\* ------------------------------------------------------------------------
\* Properties
\* ------------------------------------------------------------------------
Latest(readings) == readings[Len(readings)]
HasAlert(verdict, text) == \E i \in DOMAIN verdict.alerts : verdict.alerts[i] = text
IngestOk == last.op = "ingest" /\ last.status = "success"
\* a step that handles an ingest for machine m
IngestStep(m) == last'.op = "ingest" /\ last'.machine = m /\ stream'[m].n = stream[m].n + 1
RowIds(rows) == {rows[i].id : i \in 1..Len(rows)}
SyncedIds(rows) == {rows[i].id : i \in {j \in 1..Len(rows) : rows[j].synced}}

\* C1: for every machine the history buffer never holds more than
\* HISTORY_SIZE readings, and it holds exactly the last min(n, HISTORY_SIZE)
\* of the n readings ingested, in the order they were ingested.
C1_HistoryIsLastN ==
    \A m \in Machines :
        LET n == stream[m].n
            len == Len(sensor_history[m])
        IN /\ len = Min(n, HISTORY_SIZE)
           /\ \A i \in 1..len : sensor_history[m][i] = Ingested(m, n - len + i)

C1_Witness ==
    \E m \in Machines :
        /\ stream[m].n = HISTORY_SIZE + 3
        /\ Len(sensor_history[m]) = HISTORY_SIZE
        /\ sensor_history[m][1].ts = 4

\* C2: the score of every verdict of predict_anomaly, called by /predict or
\* by /ingest, on the model path or on a fallback, is at least the rule-based
\* score of the same readings.
C2_EnsembleAtLeastRule ==
    (last.op \in {"predict", "ingest"} /\ last.status = "success") =>
        last.prediction.anomaly_score >=
            simple_rule_based_prediction(last.readings).anomaly_score

\* a calm model score next to a critical rule hit
C2_Witness ==
    /\ last.op = "predict"
    /\ last.prediction.method = "ml_with_rules"
    /\ last.prediction.ml_score = 5000
    /\ last.prediction.anomaly_score = 9000

\* C3: an ingest of a reading with temperature above 150 returns a verdict
\* with anomaly_detected, a score of at least 0.9 and the critical
\* temperature alert, whether the machine has no model, a model, or a
\* training that just failed.
C3_CriticalTemperatureNeverMasked ==
    (/\ IngestOk
     /\ Latest(last.readings).valid
     /\ FGt(SafeFloat(Latest(last.readings).temperature_c), 150)) =>
        /\ last.prediction.anomaly_detected
        /\ last.prediction.anomaly_score >= 9000
        /\ HasAlert(last.prediction, "Critical temperature detected")

\* the model scored the window and found it calm
C3_Witness ==
    /\ IngestOk
    /\ Latest(last.readings).temperature_c = Num(180)
    /\ last.model_trained
    /\ last.prediction.method = "ml_with_rules"
    /\ last.prediction.ml_score = 5000
    /\ last.prediction.anomaly_detected

ScenarioAReading(r) ==
    \E ts \in 1..MaxIngest : r \in {Payload("t50", ts), Payload("nominal", ts)}

C9_NoTrainingBeforeTrainingSize ==
    (IngestOk /\ last.total_readings < TRAINING_SIZE) =>
        /\ last.train_status = "not_attempted"
        /\ models[last.machine] = NoModel
        /\ ~last.model_trained
        /\ ScenarioAReading(Latest(last.readings)) =>
              /\ last.prediction.method = "rule_based"
              /\ ~last.prediction.anomaly_detected

C9_Witness ==
    /\ IngestOk
    /\ last.total_readings = TRAINING_SIZE - 1
    /\ Latest(last.readings) = Payload("t50", TRAINING_SIZE - 1)
    /\ last.prediction.method = "rule_based"
    /\ ~last.model_trained

\* C10: the ingest that brings the buffer of a machine without a model to
\* TRAINING_SIZE attempts a training, and an ingest whose training succeeds,
\* like every ingest of a machine that already has a model, reports
\* model_trained = true and leaves the machine with a model.
C10_AutoTrainAtTrainingSize ==
    [][\A m \in Machines : IngestStep(m) =>
          /\ (models[m] = NoModel /\ Len(sensor_history'[m]) = TRAINING_SIZE) =>
                last'.train_status # "not_attempted"
          /\ (models[m] # NoModel \/ last'.train_status = "success") =>
                (last'.model_trained /\ models'[m] # NoModel)]_vars

\* an ingest after the one that trained the model
C10_Witness ==
    /\ IngestOk
    /\ last.total_readings = TRAINING_SIZE + 1
    /\ last.train_status = "not_attempted"
    /\ last.model_trained
    /\ baseline_stats[last.machine].training_samples = TRAINING_SIZE

\* C11: every ingest and every predict call for a machine (a request that
\* carries a machine_id) answers success with a verdict, never without one:
\* its method is one of rule_based, ml_with_rules, ml_unavailable,
\* error_fallback, its score and confidence lie in [0, 1], and whenever the
\* model did not score the readings (no model, libraries missing, a failed
\* training, no features, an exception of the scaler or the model) the
\* verdict is the one of the rule-based scorer on the same readings.
VerdictMethods == {"rule_based", "ml_with_rules", "ml_unavailable", "error_fallback"}

C11_AlwaysAVerdict ==
    (last.op \in {"ingest", "predict"} /\ last.machine # NoMachine) =>
        /\ last.status = "success"
        /\ last.prediction # NoVerdict
        /\ last.prediction.method \in VerdictMethods
        /\ last.prediction.anomaly_score \in 0..10000
        /\ last.prediction.confidence \in 0..1000
        /\ last.prediction.method # "ml_with_rules" =>
              last.prediction = simple_rule_based_prediction(last.readings)
        /\ last.prediction.method = "ml_with_rules" =>
              (ML_AVAILABLE /\ models[last.machine] # NoModel /\ Len(last.readings) >= 3)

\* scaler.transform raised on a window whose feature count is not the fitted
\* one: the rule-based scorer answered
C11_Witness ==
    /\ last.op = "predict" /\ last.status = "success"
    /\ models[last.machine] # NoModel
    /\ safe_extract_features(last.readings).ok
    /\ safe_extract_features(last.readings).dim # models[last.machine].dim
    /\ last.prediction.method = "rule_based"
    /\ last.prediction.confidence = 800

\* C12: an ingest whose auto-training fails (ml_unavailable,
\* insufficient_features, training_error) still appends its reading, leaves
\* the machine without a model and answers success with the verdict of the
\* rule-based scorer on that reading (method rule_based when the reading is
\* well formed); and every later ingest that leaves the machine without a
\* model is answered by the rule-based scorer in the same way.
TrainFailures == {"ml_unavailable", "insufficient_data", "insufficient_features",
                  "training_error"}

RuleServed(m) ==
    /\ last'.status = "success"
    /\ last'.prediction = simple_rule_based_prediction(<<Latest(sensor_history'[m])>>)
    /\ last'.prediction.method \in {"rule_based", "error_fallback"}
    /\ Latest(sensor_history'[m]).valid => last'.prediction.method = "rule_based"

C12_FailedAutoTrainStillServes ==
    [][\A m \in Machines : IngestStep(m) =>
          /\ last'.train_status \in TrainFailures =>
                /\ Len(sensor_history'[m]) = Min(Len(sensor_history[m]) + 1, HISTORY_SIZE)
                /\ \E kind \in Kinds :
                      /\ stream'[m] = Extend(stream[m], kind)
                      /\ Latest(sensor_history'[m]) = Payload(kind, stream'[m].n)
                /\ last'.total_readings = Len(sensor_history'[m])
                /\ models'[m] = NoModel /\ ~last'.model_trained
                /\ RuleServed(m)
          /\ (Len(sensor_history[m]) >= TRAINING_SIZE /\ models'[m] = NoModel) =>
                RuleServed(m)]_vars

\* the fit raised on the 30th reading; the reading is stored and scored by rule
C12_Witness ==
    /\ IngestOk
    /\ last.train_status = "training_error"
    /\ last.total_readings = TRAINING_SIZE
    /\ Len(sensor_history[last.machine]) = TRAINING_SIZE
    /\ last.prediction.method = "rule_based"
    /\ models[last.machine] = NoModel

\* C13: while a machine has no model and its buffer holds at least
\* TRAINING_SIZE readings, an ingest that grows the buffer attempts a
\* training, and an ingest that does not grow the buffer (it is full at
\* HISTORY_SIZE) attempts none.
C13_OneAttemptPerIncrement ==
    [][\A m \in Machines :
          (IngestStep(m) /\ models[m] = NoModel
           /\ Len(sensor_history'[m]) >= TRAINING_SIZE) =>
              (last'.train_status # "not_attempted"
                  <=> Len(sensor_history'[m]) > Len(sensor_history[m]))]_vars

\* C14: a status call changes no history, model, scaler or baseline state;
\* its output is the buffer length, the presence of a model, the baseline
\* statistics and the library flag of the machine as they are stored (zero
\* and none for a machine never seen), so a status call that follows a
\* status call for the same machine returns the same output.
C14_StatusReadOnlyIdempotent ==
    [][last'.op = "status" =>
          /\ UNCHANGED <<sensor_history, models, scalers, baseline_stats, ML_AVAILABLE>>
          /\ last'.total_readings = Len(sensor_history'[last'.machine])
          /\ last'.model_trained = (models'[last'.machine] # NoModel)
          /\ last'.baseline_stats = baseline_stats'[last'.machine]
          /\ last'.ml_available = ML_AVAILABLE'
          /\ (last.op = "status" /\ last.machine = last'.machine) => last' = last]_vars

\* the status of a machine with a trained model and three readings
C14_Witness ==
    /\ last.op = "status"
    /\ last.model_trained
    /\ last.total_readings = 3
    /\ last.baseline_stats.training_samples = TRAINING_SIZE
    /\ last.baseline_stats = baseline_stats[last.machine]

\* C15: of two readings scored by rule that differ only in temperature, the
\* one with the higher temperature never has the lower score; of two that
\* differ only in vibration, the one with the larger |vibration| never has
\* the lower score.
FLeq(x, y) == \/ (x.tag = "num" /\ y.tag = "num" /\ x.v <= y.v)
              \/ (x.tag = "num" /\ y.tag = "inf")
RuleCall(response) ==
    /\ response.op = "predict" /\ Len(response.readings) = 1
    /\ response.prediction.method = "rule_based"
TempOf(response) == SafeFloat(response.readings[1].temperature_c)
VibOf(response) == FAbs(SafeFloat(response.readings[1].vibration_x_g))

C15_RuleScoreMonotonic ==
    [][(RuleCall(last) /\ RuleCall(last')
        /\ last.readings[1].power_w = last'.readings[1].power_w) =>
          /\ (VibOf(last) = VibOf(last') /\ FLeq(TempOf(last), TempOf(last'))) =>
                last.prediction.anomaly_score <= last'.prediction.anomaly_score
          /\ (TempOf(last) = TempOf(last') /\ FLeq(VibOf(last), VibOf(last'))) =>
                last.prediction.anomaly_score <= last'.prediction.anomaly_score]_vars

\* vibration crossed both bands with a warm temperature: the score is 0.8
C15_Witness ==
    /\ RuleCall(last)
    /\ TempOf(last) = Num(101) /\ VibOf(last) = Num(101)
    /\ last.readings[1].power_w = Num(1000)
    /\ last.prediction.anomaly_score = 8000

\* C16: a verdict of the rule-based scorer for an empty reading (a reading
\* whose channels are all missing) has score 0, no alerts and
\* anomaly_detected = false.
EmptyReading(r) ==
    /\ r.valid
    /\ \A j \in 1..Len(Channels) : r[Channels[j]] = Missing

C16_EmptyReadingScoresZero ==
    (/\ IngestOk
     /\ last.prediction.method = "rule_based"
     /\ EmptyReading(Latest(last.readings))) =>
        /\ last.prediction.anomaly_score = 0
        /\ last.prediction.alerts = <<>>
        /\ ~last.prediction.anomaly_detected

\* ids of the rows a step marks synced
NewlySynced == SyncedIds(sensor_readings') \ SyncedIds(sensor_readings)

\* C5: a step marks either no row or every row of the batch in flight; a
\* batch whose upload failed (timeout, network error, rejected) or that was
\* in flight at a crash has no row marked, and no row of a batch in flight
\* is marked before the step that marks them all.
C5_BatchAllOrNothing ==
    [][/\ NewlySynced \in {{}, batch}
       /\ edgeLast' \in {"post_error", "post_rejected", "crash_in_flight"} =>
             batch \cap SyncedIds(sensor_readings') = {}
       /\ batch' \cap SyncedIds(sensor_readings') = {}]_vars

\* a batch of three rows whose upload raised: none is marked
C5_Witness ==
    /\ edgeLast = "post_error"
    /\ Len(sensor_readings) = 3
    /\ SyncedIds(sensor_readings) = {}

\* C6: every row flagged synced was in a batch upload the cloud acknowledged,
\* and the rows of a batch in flight when the process stops stay unsynced.
C6_SyncedOnlyAfterAck ==
    [][/\ SyncedIds(sensor_readings') \subseteq acked'
       /\ edgeLast' = "crash_in_flight" => batch \cap SyncedIds(sensor_readings') = {}]_vars

\* an earlier batch is synced, a later acknowledged one was lost in a crash
C6_Witness ==
    /\ edgeLast = "crash_in_flight"
    /\ SyncedIds(sensor_readings) # {}
    /\ acked = RowIds(sensor_readings)
    /\ SyncedIds(sensor_readings) # acked

\* C7: no step removes a row of sensor_readings or local_alerts or changes
\* its id, and no step resets a synced flag.
Monotonic(old, new) ==
    /\ Len(new) >= Len(old)
    /\ \A i \in 1..Len(old) : new[i].id = old[i].id /\ (old[i].synced => new[i].synced)

C7_EdgeLogMonotonic ==
    [][/\ Monotonic(sensor_readings, sensor_readings')
       /\ Monotonic(local_alerts, local_alerts')]_vars

\* rows synced by two different cycles are all still stored
C7_Witness ==
    /\ edgeLast = "marked"
    /\ Len(sensor_readings) = 3
    /\ SyncedIds(sensor_readings) = {1, 2, 3}
    /\ ~sensor_readings[1].offline /\ sensor_readings[2].offline

\* C8: a reading processed at the edge is stored with synced = false,
\* whether the cloud endpoint is reachable or not; a sync cycle that gets
\* through its probe selects every unsynced row (up to BATCH_LIMIT), and
\* its marking step, taken after the 200 response, leaves every row of the
\* table synced.
C8_OfflineRowsSyncedOnReconnect ==
    [][/\ Len(sensor_readings') > Len(sensor_readings) =>
             /\ ~sensor_readings'[Len(sensor_readings')].synced
             /\ sensor_readings'[Len(sensor_readings')].offline = ~cloudUp
       /\ (syncPc = "select" /\ syncPc' # syncPc /\ syncPc' # "idle"
           /\ Len(sensor_readings) <= BATCH_LIMIT) =>
             batch' = RowIds(sensor_readings) \ SyncedIds(sensor_readings)
       /\ (syncPc = "mark" /\ syncPc' = "rest") =>
             SyncedIds(sensor_readings') = RowIds(sensor_readings')]_vars

\* five readings stored while the endpoint was unreachable, all synced by
\* one cycle after it came back
C8_Witness ==
    /\ edgeLast = "marked"
    /\ Len(sensor_readings) = 5
    /\ \A i \in 1..5 : sensor_readings[i].offline /\ sensor_readings[i].synced
    /\ acked = 1..5

SyncInFlight == syncPc # "idle"

C18_IngestNotBlockedBySync ==
    SyncInFlight =>
        /\ (procPc = "idle" /\ Len(sensor_readings) < MaxRows) =>
              ENABLED (\E m \in EdgeMachines : ProcessStore(m))
        /\ (procPc = "stored" /\ syncTasks < MaxTasks) =>
              ENABLED (\E m \in EdgeMachines : ProcessFinish(m))

\* C19: the processing of a stored reading ends by returning its anomaly
\* result, whether the cloud endpoint is reachable or not and whatever the
\* earlier cycles did; and a sync step that fails (probe error or rejection,
\* upload error or rejection) changes neither the position of the
\* processing nor any row or alert: it only ends its cycle or goes on to the
\* rest of it.
SyncFailures == {"probe_error", "probe_rejected", "post_error", "post_rejected"}
SyncStep == syncPc' # syncPc \/ syncTasks' < syncTasks

C19_SyncFailureNeverReachesIngestion ==
    [][/\ (procPc = "stored" /\ procPc' = "idle") =>
             edgeLast' \in {"processed", "crash", "crash_in_flight"}
       /\ (SyncStep /\ edgeLast' \in SyncFailures) =>
             /\ procPc' = procPc
             /\ sensor_readings' = sensor_readings /\ local_alerts' = local_alerts
             /\ syncPc' \in {"idle", "rest"}]_vars

\* a second reading is processed after the cycle of the first failed, with
\* the endpoint still unreachable
C19_Witness ==
    /\ edgeLast = "processed"
    /\ ~cloudUp /\ ~cloud_connection
    /\ Len(sensor_readings) = 2
    /\ SyncedIds(sensor_readings) = {}
    /\ syncTasks = 1

\* C20: after a failed sync cycle a new cycle can start without a new
\* reading being processed: whenever a cycle has ended in a failure and rows
\* are still unsynced, the start of a cycle is enabled (so that, the
\* endpoint staying reachable, every unsynced row is uploaded and marked).
C20_RetryWithoutNewIngestion ==
    (/\ edgeLast \in SyncFailures \cup {"cycle_done"}
     /\ syncPc = "idle"
     /\ SyncedIds(sensor_readings) # RowIds(sensor_readings)) =>
        ENABLED SyncProbe

\* C21: a batch upload the cloud acknowledges with a 2xx status goes on to
\* the marking step with its batch, and the marking step marks every row of
\* the batch and no other row.
C21_AckMarksExactlyBatch ==
    [][/\ (syncPc = "post" /\ syncPc' # syncPc /\ edgeLast' = "post_ok") =>
             (syncPc' = "mark" /\ batch' = batch /\ batch # {})
       /\ (syncPc = "mark" /\ syncPc' = "rest") =>
             SyncedIds(sensor_readings') = SyncedIds(sensor_readings) \cup batch]_vars

\* C22: a predict call for a machine without a model, or on readings from
\* which no features can be extracted, returns exactly the verdict of the
\* rule-based scorer for the same readings: no model score, the confidence
\* of the rule-based scorer, and method rule_based (error_fallback only when
\* the newest reading is malformed and the rule-based scorer itself fails).
C22_TotalFallback ==
    (/\ last.op = "predict" /\ last.status = "success"
     /\ \/ models[last.machine] = NoModel
        \/ ~safe_extract_features(last.readings).ok) =>
        /\ last.prediction = simple_rule_based_prediction(last.readings)
        /\ last.prediction.ml_score = 0
        /\ last.prediction.confidence \in {0, 800}
        /\ last.prediction.method \in {"rule_based", "error_fallback"}
        /\ (last.readings = <<>> \/ Latest(last.readings).valid) =>
              last.prediction.method = "rule_based"

\* a trained machine, a window with malformed readings: no features, the
\* rule-based scorer decides on the newest reading
C22_Witness ==
    /\ last.op = "predict" /\ last.status = "success"
    /\ ML_AVAILABLE /\ models[last.machine] # NoModel
    /\ Len(last.readings) >= 3
    /\ ~safe_extract_features(last.readings).ok
    /\ last.prediction.method = "rule_based"
    /\ last.prediction.anomaly_score = 9000

\* C23: the confidence of a verdict is min(1.0, window length / 10) when the
\* model contributed (method ml_with_rules) and 0.8 for every verdict of method
\* rule_based, the one for an empty list of readings included.
C23_ConfidenceByMethod ==
    (last.op \in {"predict", "ingest"} /\ last.status = "success") =>
        /\ last.prediction.method = "ml_with_rules" =>
              last.prediction.confidence = Min(1000, Len(last.readings) * 100)
        /\ last.prediction.method = "rule_based" => last.prediction.confidence = 800

\* C24: at every point a request can observe, a machine has a model exactly
\* when it has a scaler, and the two were stored by the same training (same
\* generation, same feature count); no state pairs a model of one training
\* with the scaler of another.
C24_ModelScalerPaired ==
    \A m \in Machines :
        /\ (models[m] = NoModel) <=> (scalers[m] = NoModel)
        /\ models[m].id = scalers[m].id
        /\ models[m].dim = scalers[m].dim

\* a predict served by a model that replaced an earlier one
C24_Witness ==
    /\ last.op = "predict" /\ last.machine \in Machines
    /\ models[last.machine].id = 2
    /\ scalers[last.machine].id = 2
    /\ last.prediction.method = "ml_with_rules"

\* C25: an ingest that attempts auto-training trains on the buffer exactly as
\* it stands at the trigger, the request's own reading appended and no other
\* append in between: the outcome is that of training on this buffer, and a
\* successful training leaves the baseline statistics of this buffer (the
\* earlier statistics when a malformed reading makes their calculation fail).
C25_TrainsOnTriggerSnapshot ==
    [][\A m \in Machines :
          (IngestStep(m) /\ last'.train_status # "not_attempted") =>
              /\ sensor_history'[m] = DequeAppend(sensor_history[m], Latest(sensor_history'[m]))
              /\ AutoTrainDue(models[m], sensor_history'[m])
              /\ last'.train_status = train_model(ML_AVAILABLE, sensor_history'[m]).status
              /\ last'.train_status = "success" =>
                    /\ baseline_stats'[m] =
                          calculate_baseline_stats(baseline_stats[m], sensor_history'[m])
                    /\ (\A i \in 1..Len(sensor_history'[m]) : sensor_history'[m][i].valid) =>
                          /\ baseline_stats'[m].training_samples = Len(sensor_history'[m])
                          /\ last'.total_readings = baseline_stats'[m].training_samples]_vars

\* an auto-training that succeeded on a buffer whose newest reading, the one
\* that triggered it, is the only critical one
C25_Witness ==
    /\ IngestOk /\ last.train_status = "success"
    /\ Len(sensor_history[last.machine]) = TRAINING_SIZE
    /\ Latest(sensor_history[last.machine]).temperature_c = Num(180)
    /\ baseline_stats[last.machine].training_samples = TRAINING_SIZE
    /\ baseline_stats[last.machine].temperature = <<29 * 50 + 180, TRAINING_SIZE>>

\* C26: every verdict an ingest or a predict returns has its anomaly_score in
\* [0, 1] and its confidence in [0, 1].
C26_ScoreAndConfidenceInUnitInterval ==
    (last.op \in {"ingest", "predict"} /\ last.status = "success") =>
        /\ 0 <= last.prediction.anomaly_score /\ last.prediction.anomaly_score <= 10000
        /\ 0 <= last.prediction.confidence /\ last.prediction.confidence <= 1000

\* a model verdict at both upper ends: a window of more than ten readings and
\* a decision score below zero
C26_Witness ==
    /\ last.op = "predict" /\ last.status = "success"
    /\ last.prediction.method = "ml_with_rules"
    /\ Len(last.readings) > 10
    /\ last.prediction.ml_score < 0
    /\ last.prediction.anomaly_score = 10000
    /\ last.prediction.confidence = 1000

\* C27: feature extraction on fewer than 3 readings returns no vector,
\* whatever the readings hold, so a predict on such a list is never decided
\* with the model.
C27_ShortWindowNoFeatures ==
    (last.op = "predict" /\ last.status = "success" /\ Len(last.readings) < 3) =>
        /\ safe_extract_features(last.readings) = NoFeatures
        /\ last.prediction.method # "ml_with_rules"
        /\ last.prediction = simple_rule_based_prediction(last.readings)

\* a trained machine asked for a verdict on two well-formed readings
C27_Witness ==
    /\ last.op = "predict" /\ last.status = "success"
    /\ ML_AVAILABLE /\ models[last.machine] # NoModel
    /\ Len(last.readings) = 2
    /\ \A i \in 1..2 : last.readings[i].valid
    /\ last.prediction.method = "rule_based"
    /\ last.prediction.anomaly_score = 7000

\* C28: a train call fits at most once: the machine's model moves on by one
\* generation exactly when the call reports success.  A call that fails for a
\* machine without a model leaves it without model and scaler and reports
\* insufficient_data, insufficient_features, training_error or ml_unavailable.
C28_TrainOnceFailureKeepsUntrained ==
    [][\A m \in Machines :
          (last'.op = "train" /\ last'.machine = m) =>
              /\ models'[m].id \in {models[m].id, models[m].id + 1}
              /\ (last'.status = "success") <=> (models'[m].id = models[m].id + 1)
              /\ last'.status \in TrainFailures \cup {"success"}
              /\ (last'.status # "success" /\ models[m] = NoModel) =>
                    /\ models'[m] = NoModel /\ scalers'[m] = NoModel
                    /\ baseline_stats'[m] = baseline_stats[m]
                    /\ ~last'.model_trained]_vars

\* a train call on thirty malformed readings: no window gives features and
\* the machine stays untrained
C28_Witness ==
    /\ last.op = "train" /\ last.machine \in Machines
    /\ ML_AVAILABLE
    /\ last.status = "insufficient_features"
    /\ last.total_readings = TRAINING_SIZE
    /\ models[last.machine] = NoModel /\ scalers[last.machine] = NoModel
    /\ ~last.model_trained

\* C29: in every verdict returned by predict or ingest, anomaly_detected is
\* true exactly when the anomaly_score of the same verdict is strictly greater
\* than ANOMALY_THRESHOLD; a score of exactly 0.7 is not an anomaly.
C29_DetectedIffReportedScoreAbove ==
    (last.op \in {"predict", "ingest"} /\ last.status = "success") =>
        (last.prediction.anomaly_detected
            <=> last.prediction.anomaly_score > ANOMALY_THRESHOLD)

\* the channels with a value in at least one reading of a window
PresentChannels(readings) ==
    {j \in 1..Len(Channels) :
        \E i \in 1..Len(readings) : readings[i][Channels[j]].tag \notin {"none", "nan"}}

\* C30: a channel missing from every reading of a window has no part in the
\* feature vector: the vector holds four features for each channel present in
\* some reading, and a window without any channel yields no features.
C30_MissingChannelDropped ==
    (/\ last.op = "predict" /\ last.status = "success"
     /\ Len(last.readings) >= 3
     /\ \A i \in 1..Len(last.readings) : last.readings[i].valid) =>
        LET features == safe_extract_features(last.readings)
            present == PresentChannels(last.readings)
        IN IF present = {} THEN features = NoFeatures
           ELSE features.ok /\ features.dim = 4 * Cardinality(present)

\* C31: the health probe gates the sync cycle.  A cycle whose probe fails
\* (a status other than 200, or an exception) ends there: nothing is selected
\* or uploaded and no row changes.  The selection starts only from a probe
\* answered with 200, and an upload or a change of a synced flag happens only
\* inside a cycle that passed the probe.
C31_ProbeGatesCycle ==
    [][/\ (syncTasks' < syncTasks /\ edgeLast' \in {"probe_error", "probe_rejected"}) =>
             /\ syncPc' = "idle" /\ ~cloud_connection'
             /\ sensor_readings' = sensor_readings
             /\ acked' = acked /\ batch' = {}
       /\ (syncPc = "idle" /\ syncPc' # "idle") =>
             (syncPc' = "select" /\ edgeLast' = "probe_ok" /\ cloud_connection')
       /\ (\/ acked' # acked
           \/ SyncedIds(sensor_readings') # SyncedIds(sensor_readings)
           \/ (edgeLast' \in {"post_ok", "post_rejected", "post_error"}
               /\ syncPc' # syncPc)) =>
             (syncPc \in {"post", "mark"} /\ cloud_connection)]_vars

\* a cycle ended by a rejected probe while unsynced rows wait
C31_Witness ==
    /\ edgeLast = "probe_rejected" /\ syncPc = "idle"
    /\ ~cloud_connection /\ cloudUp
    /\ \E i \in 1..Len(sensor_readings) : ~sensor_readings[i].synced
    /\ batch = {}

\* C32: a sync cycle whose reading-batch upload fails (timeout, network error
\* or a status outside 2xx) is aborted there: it ends without the later steps
\* of the cycle, the upload of alerts and the download of models.
C32_FailedUploadAbortsCycle ==
    [][/\ (syncPc = "post" /\ syncPc' # "post"
           /\ edgeLast' \in {"post_error", "post_rejected"}) => syncPc' = "idle"
       /\ (syncPc = "rest" /\ syncPc' = "idle" /\ edgeLast' = "cycle_done") =>
             edgeLast \notin {"post_error", "post_rejected"}]_vars

\* the processing of a reading ends in this step, and no sync task ran
\* between its storing and its scoring
ScoredStep ==
    /\ procPc = "stored" /\ procPc' = "idle"
    /\ edgeLast \in {"stored", "stored_outlier", "stored_extreme"}

\* C34: a processed reading gets an alert row exactly when its verdict crosses
\* the alert threshold, that is when its z-score against the trailing window
\* is above 4.  The row is stored unsynced, critical for a confidence above
\* 0.9 (a z-score above 4.5) and warning otherwise; with fewer than 10 recent
\* readings no alert is created.
C34_AlertExactlyAboveThreshold ==
    [][ScoredStep =>
          /\ (Len(local_alerts') > Len(local_alerts))
                <=> (edgeLast \in {"stored_outlier", "stored_extreme"})
          /\ Len(local_alerts') > Len(local_alerts) =>
                /\ local_alerts' = Append(local_alerts, Latest(local_alerts'))
                /\ ~Latest(local_alerts').synced
                /\ Latest(local_alerts').severity =
                      IF edgeLast = "stored_extreme" THEN "critical" ELSE "warning"
          /\ Len(sensor_readings) < 10 => local_alerts' = local_alerts]_vars

\* C35: a machine that has a model keeps having one through every operation,
\* a failed train call included, which leaves the very same model; ingest and
\* status report model_trained = true for it from then on.
C35_ModelNeverRemoved ==
    [][\A m \in Machines : models[m] # NoModel =>
          /\ models'[m] # NoModel /\ scalers'[m] # NoModel
          /\ (last'.op = "train" /\ last'.machine = m /\ last'.status # "success") =>
                (models'[m] = models[m] /\ scalers'[m] = scalers[m])
          /\ (last'.op \in {"ingest", "status", "train"} /\ last'.machine = m) =>
                last'.model_trained]_vars

\* a train call that failed for a machine with a model, which it still has
C35_Witness ==
    /\ last.op = "train" /\ last.machine \in Machines
    /\ last.status \in TrainFailures
    /\ models[last.machine] # NoModel
    /\ last.model_trained

\* C36: an ingest for a machine that has a model attempts no training and
\* leaves its model, its scaler and its baseline statistics as they are,
\* however many readings have arrived.
C36_IngestNeverRetrains ==
    [][\A m \in Machines : (IngestStep(m) /\ models[m] # NoModel) =>
          /\ last'.train_status = "not_attempted"
          /\ models'[m] = models[m]
          /\ scalers'[m] = scalers[m]
          /\ baseline_stats'[m] = baseline_stats[m]
          /\ last'.model_trained]_vars

\* a trained machine whose buffer is full and keeps receiving readings
C36_Witness ==
    /\ IngestOk /\ last.train_status = "not_attempted"
    /\ last.model_trained /\ models[last.machine].id = 1
    /\ stream[last.machine].n > HISTORY_SIZE
    /\ Len(sensor_history[last.machine]) = HISTORY_SIZE
    /\ baseline_stats[last.machine].training_samples = TRAINING_SIZE

\* C37: an ingest or a train for one machine leaves the history buffer, the
\* model, the scaler and the baseline statistics of every other machine as
\* they are, and an ingest without machine_id changes nothing.
C37_PerMachineIsolation ==
    [][/\ \A a \in Machines : \A b \in Machines \ {a} :
             (last'.op \in {"ingest", "train"} /\ last'.machine = a) =>
                 /\ sensor_history'[b] = sensor_history[b]
                 /\ models'[b] = models[b]
                 /\ scalers'[b] = scalers[b]
                 /\ baseline_stats'[b] = baseline_stats[b]
       /\ (last'.op = "ingest" /\ last'.machine = NoMachine) =>
             UNCHANGED <<sensor_history, models, scalers, baseline_stats>>]_vars

\* an ingest for m1 while m2 holds readings, a model and statistics
C37_Witness ==
    /\ IngestOk /\ last.machine = "m1"
    /\ Len(sensor_history["m1"]) = MaxApiIngest
    /\ Len(sensor_history["m2"]) > 0
    /\ models["m2"] # NoModel /\ models["m1"] = NoModel
    /\ baseline_stats["m2"].training_samples = TRAINING_SIZE
    /\ baseline_stats["m1"] = NoStats

\* a created sync task starts in this step
TaskStarts ==
    /\ syncTasks' = syncTasks - 1
    /\ edgeLast' \in {"probe_ok", "probe_rejected", "probe_error"}

\* C38: sync tasks are created for every processed reading, but at most one
\* cycle is between its selection and its marking: a task starts only while
\* no cycle is in that section and no batch is in flight, and a batch is
\* selected only when none is in flight, from rows that are not synced.
C38_OneCycleInFlight ==
    [][/\ TaskStarts => (syncPc \notin {"select", "post", "mark"} /\ batch = {})
       /\ batch # {} => syncPc \in {"post", "mark"}
       /\ (batch' # {} /\ batch' # batch) =>
             /\ batch = {} /\ syncPc = "select" /\ syncPc' = "post"
             /\ batch' \subseteq RowIds(sensor_readings) \ SyncedIds(sensor_readings)]_vars

\* a batch in flight while another created task waits for its turn
C38_Witness ==
    /\ syncPc = "post" /\ batch # {}
    /\ syncTasks > 0
    /\ batch = RowIds(sensor_readings) \ SyncedIds(sensor_readings)

====
